---------------------------- MODULE Spec2Model ----------------------------
(***************************************************************************)
(* bwbackup (src/src/main.rs): an encrypted backup of a BitWarden export.  *)
(*                                                                         *)
(* One behaviour of this model is a sequence of invocations of the         *)
(* program on one backup file.  An invocation is `backup` (login, unlock,  *)
(* export, seal, create the file, write it) or `restore` (open the file,   *)
(* read it, check its length, derive the key, decrypt, write to stdout).   *)
(* Every `?` of the source is the end of the invocation: the handler sets  *)
(* the error and the exit status in the same step.                         *)
(*                                                                         *)
(* The sodiumoxide primitives are not code of this repository.  They are   *)
(* modelled by small byte-level stand-ins that keep the shape the code     *)
(* relies on (a 32-byte key from password and salt, a ciphertext that is a *)
(* 16-byte tag followed by the masked payload, an open that recomputes the *)
(* tag) and that are, on the inputs of this model, free of collisions:     *)
(* this is the usual ideal-primitive assumption, stated at each of them.   *)
(* Whether key derivation returns a key is the environment's choice, as it *)
(* is for the library (it fails when memory cannot be allocated).          *)
(*                                                                         *)
(* The environment also decides what each `bw` command, each file          *)
(* operation and each write to stdout comes to, what the random generator  *)
(* returns, and whether the bytes restore reads are those backup wrote or  *)
(* those bytes with one bit of the ciphertext region flipped.              *)
(***************************************************************************)
EXTENDS Integers, Sequences, FiniteSets, TLC

VARIABLES
    pc,         \* position of the running invocation; "idle" before the first, "exited" after one
    cmd,        \* opt.cmd of the invocation: "backup" | "restore" | "none"
    password,   \* the master password read by main, as bytes
    fileExists, \* whether the backup file exists on disk
    file,       \* the bytes of the backup file on disk
    origin,     \* history: what the bytes of `file` come from
    damaged,    \* history: the bytes restore read are the file's with one bit flipped
    steps,      \* history: the steps this invocation executed, <<step, outcome>> each
    err,        \* the error main returns ("" for none)
    exitCode,   \* the exit status of the process (-1 while it runs)
    stdout,     \* bytes this invocation wrote to its standard output
    payload,    \* backup: output.stdout of `bw export`
    salt,       \* seal / restore: the salt in use
    nonce,      \* seal / restore: the nonce in use
    sealed,     \* backup: the result of seal
    buf,        \* restore: the bytes read from the file
    key,        \* restore: the derived key (kb)
    decrypted   \* restore: the result of secretbox::open

vars == <<pc, cmd, password, fileExists, file, origin, damaged, steps, err, exitCode,
          stdout, payload, salt, nonce, sealed, buf, key, decrypted>>

locals == <<payload, salt, nonce, sealed, buf, key, decrypted>>

---------------------------------------------------------------------------
(* Bounds of the model *)

\* longest payload `bw export` prints, in bytes
MaxLen == 3

\* what `bw export` prints is a prefix of this text: {"items":[]}
ExportText == <<123, 34, 105, 116, 101, 109, 115, 34, 58, 91, 93, 125>>

\* the master passwords typed, as bytes (the empty password is not refused)
Passwords == {<< >>, <<112, 119>>}

\* first byte of the salts gen_salt may return
SaltSeeds == {17, 201}

\* first byte of the nonces gen_nonce may return
NonceSeeds == {5, 130}

\* the bytes that fill a file that was on disk before the first invocation
JunkBytes == {0}

---------------------------------------------------------------------------
(* Sizes fixed by the libraries and by the file format *)

\* pwhash::SALTBYTES, the length of pwhash::Salt
SALTBYTES == 32

\* secretbox::NONCEBYTES, the length of secretbox::Nonce
NONCEBYTES == 24

\* secretbox::KEYBYTES, the length of kb
KEYBYTES == 32

\* secretbox::MACBYTES, the length of the authentication tag
MACBYTES == 16

\* the literal 32 of restore: &buf[0..32], &buf[32..56]
SaltEnd == 32

\* the literal 56 of restore: buf.len() > 56, &buf[32..56], &buf[56..]
HeaderLen == 56

Payloads == {SubSeq(ExportText, 1, n) : n \in 0..MaxLen}

\* the longest result of seal
MaxSealedLen == SALTBYTES + NONCEBYTES + MACBYTES + MaxLen

\* the lengths a file found on disk before the first invocation may have
JunkLens == 0..(HeaderLen + MACBYTES)

\* the numbers of bytes write_all may have written to the file when it fails
WrittenLens == {0, 1, HeaderLen, HeaderLen + 1, HeaderLen + MACBYTES - 1,
                HeaderLen + MACBYTES}

NoErr == ""

---------------------------------------------------------------------------
(* Bytes *)

Bit(x, k) == (x \div (2 ^ k)) % 2

\* x ^ y on two bytes
Xor8(x, y) ==
    LET b(k) == ((Bit(x, k) + Bit(y, k)) % 2) * (2 ^ k)
    IN  b(0) + b(1) + b(2) + b(3) + b(4) + b(5) + b(6) + b(7)

\* x with bit k flipped
FlipBit(x, k) == IF Bit(x, k) = 1 THEN x - 2 ^ k ELSE x + 2 ^ k

\* &s[from..] and &s[from..to], with Rust's 0-based half-open bounds
SliceFrom(s, from) == SubSeq(s, from + 1, Len(s))

Slice(s, from, to) == SubSeq(s, from + 1, to)

Prefix(s, n) == SubSeq(s, 1, n)

\* the sum of f[i] over the i of 1..n
RECURSIVE SumTo(_, _)
SumTo(f, n) == IF n = 0 THEN 0 ELSE f[n] + SumTo(f, n - 1)

---------------------------------------------------------------------------
(* The sodiumoxide primitives, as the code uses them *)

\* pwhash::gen_salt() and secretbox::gen_nonce(): the random bytes drawn,
\* one value per seed
SaltOf(seed) == [i \in 1..SALTBYTES |-> (seed + 3 * i) % 256]

NonceOf(seed) == [i \in 1..NONCEBYTES |-> (seed + 7 * i) % 256]

\* password.as_bytes() folded into one byte; distinct on Passwords
RECURSIVE PwHash(_)
PwHash(pw) ==
    IF pw = << >> THEN 0
    ELSE (31 * PwHash(Prefix(pw, Len(pw) - 1)) + pw[Len(pw)] + 1) % 256

\* pwhash::derive_key_interactive(&mut kb, password, &salt) when it returns
\* Ok: kb is a function of password and salt alone.  Ideal-KDF assumption:
\* two passwords of the model never give the same kb under one salt (the
\* factor 2i - 1 is odd, so byte i differs whenever PwHash does).
derive_key_interactive(pw, s) ==
    [i \in 1..KEYBYTES |-> (s[i] + (2 * i - 1) * PwHash(pw)) % 256]

\* the keystream byte that masks payload byte i under (key, nonce)
KeyStream(k, n, i) ==
    (k[((i - 1) % Len(k)) + 1] + n[((i - 1) % Len(n)) + 1] + i) % 256

Mask(m, n, k) == [i \in 1..Len(m) |-> Xor8(m[i], KeyStream(k, n, i))]

\* the MACBYTES-byte tag of a masked payload c under (key, nonce).  Ideal-MAC
\* assumption: a change of one bit of c, or of the key under the same nonce,
\* changes the tag (each byte of c enters one tag byte with an odd factor).
Tag(c, n, k) ==
    [j \in 1..MACBYTES |->
        (k[j] + n[j] + Len(c)
         + SumTo([i \in 1..Len(c) |->
                    IF (i - 1) % MACBYTES = j - 1 THEN (2 * i + 1) * c[i] ELSE 0],
                 Len(c))) % 256]

\* secretbox::seal(data, &nonce, &key): the tag, then the masked payload
secretbox_seal(m, n, k) == Tag(Mask(m, n, k), n, k) \o Mask(m, n, k)

\* secretbox::open(c, &nonce, &key): Err(()) when c is shorter than the tag
\* or the tag does not verify, else Ok(the payload)
secretbox_open(c, n, k) ==
    IF Len(c) < MACBYTES THEN [ok |-> FALSE, data |-> << >>]
    ELSE LET body == SliceFrom(c, MACBYTES)
         IN  IF Prefix(c, MACBYTES) = Tag(body, n, k)
             THEN [ok |-> TRUE, data |-> Mask(body, n, k)]
             ELSE [ok |-> FALSE, data |-> << >>]

---------------------------------------------------------------------------
(* seal, and the slices of restore *)

\* seal with the nonce written before the salt
seal_NonceFirst(pw, data, s, n) ==
    n \o s \o secretbox_seal(data, n, derive_key_interactive(pw, s))

\* seal that forgets to write the nonce
seal_NoNonce(pw, data, s, n) ==
    s \o secretbox_seal(data, n, derive_key_interactive(pw, s))

\* seal that draws nothing: a salt and a nonce fixed in the code
seal_FixedDraw(pw, data, s, n) ==
    SaltOf(0) \o NonceOf(0)
        \o secretbox_seal(data, NonceOf(0), derive_key_interactive(pw, SaltOf(0)))

\* seal(password, data) once salt and nonce are drawn and the key is derived:
\* result = salt.0 ++ nonce.0 ++ encrypted
seal(pw, data, s, n) ==
    s \o n \o secretbox_seal(data, n, derive_key_interactive(pw, s))

\* the length check off by one: a file of exactly 56 bytes passes
LongEnough_AtLeast(b) == Len(b) >= HeaderLen

\* the length check asking for a whole tag as well
LongEnough_WithTag(b) == Len(b) >= HeaderLen + MACBYTES

\* ensure!(buf.len() > 56, ...)
LongEnough(b) == Len(b) > HeaderLen

\* &buf[0..32]
SaltSlice(b) == Slice(b, 0, SaltEnd)

\* &buf[32..56]
NonceSlice(b) == Slice(b, SaltEnd, HeaderLen)

\* &buf[56..]
CipherSlice(b) == SliceFrom(b, HeaderLen)

\* an exit status that is never looked at
success_Unchecked(status) == TRUE

\* output.status.success()
success(status) == status = 0

\* restore from the length check to secretbox::open, as one function of the
\* password and the bytes read, given that key derivation returns a key
open(pw, b) ==
    IF ~LongEnough(b) THEN [ok |-> FALSE, data |-> << >>]
    ELSE secretbox_open(CipherSlice(b), NonceSlice(b),
                        derive_key_interactive(pw, SaltSlice(b)))

---------------------------------------------------------------------------
(* The state before the first invocation *)

NoOrigin ==
    [st |-> "none", pw |-> << >>, data |-> << >>, salt |-> << >>, nonce |-> << >>]

Init ==
    /\ pc = "idle"
    /\ cmd = "none"
    /\ password = << >>
    /\ fileExists \in BOOLEAN
    /\ file \in (IF fileExists
                 THEN UNION {[1..n -> JunkBytes] : n \in JunkLens}
                 ELSE {<< >>})
    /\ origin = NoOrigin
    /\ damaged = FALSE
    /\ steps = << >>
    /\ err = NoErr
    /\ exitCode = -1
    /\ stdout = << >>
    /\ payload = << >>
    /\ salt = << >>
    /\ nonce = << >>
    /\ sealed = << >>
    /\ buf = << >>
    /\ key = << >>
    /\ decrypted = << >>

\* the memory of a process that is starting or has exited holds nothing
NoLocals ==
    /\ payload' = << >>
    /\ salt' = << >>
    /\ nonce' = << >>
    /\ sealed' = << >>
    /\ buf' = << >>
    /\ key' = << >>
    /\ decrypted' = << >>

\* `step` ran with `outcome` and the invocation goes on at `next`
Go(step, outcome, next) ==
    /\ steps' = Append(steps, <<step, outcome>>)
    /\ pc' = next
    /\ UNCHANGED <<err, exitCode>>

\* the process ends: main returned `msg` (NoErr for Ok(())) with `status`
Exit(msg, status) ==
    /\ pc' = "exited"
    /\ err' = msg
    /\ exitCode' = status
    /\ NoLocals

\* `?` and ensure!: `step` failed, main returns Err(msg), the process exits
\* with status 1
Fail(step, outcome, msg) ==
    /\ steps' = Append(steps, <<step, outcome>>)
    /\ Exit(msg, 1)

---------------------------------------------------------------------------
(* main *)

\* main: parse the options, resolve the file path, read the password, then
\* dispatch on the subcommand
Main(c, pw, res) ==
    /\ pc \in {"idle", "exited"}
    /\ cmd' = c
    /\ stdout' = << >>
    /\ damaged' = FALSE
    /\ UNCHANGED <<fileExists, file, origin>>
    /\ \/ /\ res = "path_error"
          /\ password' = << >>
          /\ steps' = << <<"get_file", "error">> >>
          /\ Exit("Could not create directory", 1)
       \/ /\ res = "prompt_error"
          /\ password' = << >>
          /\ steps' = << <<"get_file", "ok">>, <<"prompt_password", "error">> >>
          /\ Exit("Could not read master password", 1)
       \/ /\ res = "ok"
          /\ password' = pw
          /\ steps' = << <<"get_file", "ok">>, <<"prompt_password", "ok">> >>
          /\ pc' = IF c = "backup" THEN "login" ELSE "open"
          /\ err' = NoErr
          /\ exitCode' = -1
          /\ NoLocals

---------------------------------------------------------------------------
(* backup *)

\* what running `bw ...` came to: the command could not be run, or it ran
\* and exited with `status`
Ran(res, status) ==
    IF res = "spawn_error" THEN "spawn_error"
    ELSE IF status = 0 THEN "ok" ELSE "exit_nonzero"

\* bw login: only a failure to run the command is an error; the exit
\* status is logged and nothing else
BackupLogin(res, status) ==
    /\ pc = "login"
    /\ UNCHANGED <<cmd, password, fileExists, file, origin, damaged, stdout>>
    /\ \/ /\ res = "spawn_error"
          /\ Fail("login", Ran(res, status), "bw login command failed")
       \/ /\ res = "ran"
          /\ Go("login", Ran(res, status), "unlock")
          /\ UNCHANGED locals

\* bw unlock: the command must run, exit successfully and print UTF-8
BackupUnlock(res, status, utf8) ==
    /\ pc = "unlock"
    /\ UNCHANGED <<cmd, password, fileExists, file, origin, damaged, stdout>>
    /\ \/ /\ res = "spawn_error"
          /\ Fail("unlock", Ran(res, status), "Error running 'bw unlock'")
       \/ /\ res = "ran"
          /\ ~success(status)
          /\ Fail("unlock", Ran(res, status), "bw unlock exited unsuccessfully")
       \/ /\ res = "ran"
          /\ success(status)
          /\ ~utf8
          /\ Fail("unlock", "invalid_utf8", "Invalid UTF8 encoding in stdout")
       \/ /\ res = "ran"
          /\ success(status)
          /\ utf8
          /\ Go("unlock", Ran(res, status), "export")
          /\ UNCHANGED locals

\* bw export with its exit status only logged, as that of bw login is
BackupExport_Unchecked(res, status, out) ==
    /\ pc = "export"
    /\ UNCHANGED <<cmd, password, fileExists, file, origin, damaged, stdout>>
    /\ \/ /\ res = "spawn_error"
          /\ Fail("export", Ran(res, status), "Error running 'bw unlock'")
       \/ /\ res = "ran"
          /\ payload' = out
          /\ Go("export", Ran(res, status), "seal")
          /\ UNCHANGED <<salt, nonce, sealed, buf, key, decrypted>>

\* bw export: the command must run and exit successfully; its stdout is the
\* payload
BackupExport(res, status, out) ==
    /\ pc = "export"
    /\ UNCHANGED <<cmd, password, fileExists, file, origin, damaged, stdout>>
    /\ \/ /\ res = "spawn_error"
          /\ Fail("export", Ran(res, status), "Error running 'bw unlock'")
       \/ /\ res = "ran"
          /\ ~success(status)
          /\ Fail("export", Ran(res, status), "bw export exited unsuccessfully")
       \/ /\ res = "ran"
          /\ success(status)
          /\ payload' = out
          /\ Go("export", Ran(res, status), "seal")
          /\ UNCHANGED <<salt, nonce, sealed, buf, key, decrypted>>

\* let sealed = seal(password, &output.stdout)?
BackupSeal(s, n, kdfOk) ==
    /\ pc = "seal"
    /\ UNCHANGED <<cmd, password, fileExists, file, origin, damaged, stdout>>
    /\ \/ /\ ~kdfOk
          /\ Fail("seal", "kdf_error", "Could not derive key")
       \/ /\ kdfOk
          /\ salt' = s
          /\ nonce' = n
          /\ sealed' = seal(password, payload, s, n)
          /\ Go("seal", "ok", "create")
          /\ UNCHANGED <<payload, buf, key, decrypted>>

\* std::fs::File::create(&filepath): creates the file or truncates it
BackupCreate(ioOk) ==
    /\ pc = "create"
    /\ UNCHANGED <<cmd, password, damaged, stdout>>
    /\ \/ /\ ~ioOk
          /\ Fail("create", "io_error", "Could not open save file")
          /\ UNCHANGED <<fileExists, file, origin>>
       \/ /\ ioOk
          /\ fileExists' = TRUE
          /\ file' = << >>
          /\ origin' = NoOrigin
          /\ Go("create", "ok", "write")
          /\ UNCHANGED locals

\* file.write_all(&sealed): all of sealed, or an error after `written` bytes
BackupWrite(ioOk, written) ==
    /\ pc = "write"
    /\ UNCHANGED <<cmd, password, fileExists, damaged, stdout>>
    /\ \/ /\ ~ioOk
          /\ written < Len(sealed)
          /\ file' = Prefix(sealed, written)
          /\ origin' = [st |-> "partial", pw |-> password, data |-> payload,
                        salt |-> salt, nonce |-> nonce]
          /\ Fail("write", "io_error", "Could not write output to file")
       \/ /\ ioOk
          /\ file' = sealed
          /\ origin' = [st |-> "intact", pw |-> password, data |-> payload,
                        salt |-> salt, nonce |-> nonce]
          /\ Go("write", "ok", "flush")
          /\ UNCHANGED locals

\* file.flush() (nothing to do for a File, it returns Ok), then
\* println!("Saved to ..."), which panics when stdout cannot be written;
\* `stdout` keeps the vault's bytes only, not this message
BackupFinish(printOk) ==
    /\ pc = "flush"
    /\ UNCHANGED <<cmd, password, fileExists, file, origin, damaged, stdout>>
    /\ \/ /\ ~printOk
          /\ steps' = steps \o << <<"flush", "ok">>, <<"println", "panic">> >>
          /\ Exit("failed printing to stdout", 101)
       \/ /\ printOk
          /\ steps' = steps \o << <<"flush", "ok">>, <<"println", "ok">> >>
          /\ Exit(NoErr, 0)

---------------------------------------------------------------------------
(* restore *)

\* std::fs::File::open(filepath)
RestoreOpen(ioOk) ==
    /\ pc = "open"
    /\ UNCHANGED <<cmd, password, fileExists, file, origin, damaged, stdout>>
    /\ \/ /\ ~ioOk \/ ~fileExists
          /\ Fail("open", "io_error", "Could not open for reading")
       \/ /\ ioOk
          /\ fileExists
          /\ Go("open", "ok", "read")
          /\ UNCHANGED locals

\* file.read_to_end(&mut buf).  The bytes read are those of the file, or, for
\* a sealed archive that was damaged or tampered with after it was written,
\* those bytes with bit `bit` of byte `pos` of the ciphertext region flipped
\* (pos = 0: the archive is read as it was written)
RestoreRead(ioOk, pos, bit) ==
    /\ pc = "read"
    /\ UNCHANGED <<cmd, password, fileExists, file, origin, stdout>>
    /\ \/ /\ ~ioOk
          /\ pos = 0
          /\ Fail("read", "io_error", "Could not read file")
          /\ UNCHANGED damaged
       \/ /\ ioOk
          /\ pos = 0
          /\ buf' = file
          /\ Go("read", "ok", "guard")
          /\ UNCHANGED <<damaged, payload, salt, nonce, sealed, key, decrypted>>
       \/ /\ ioOk
          /\ origin.st = "intact"
          /\ pos \in (HeaderLen + 1)..Len(file)
          /\ buf' = [file EXCEPT ![pos] = FlipBit(@, bit)]
          /\ damaged' = TRUE
          /\ Go("read", "ok", "guard")
          /\ UNCHANGED <<payload, salt, nonce, sealed, key, decrypted>>

\* ensure!(buf.len() > 56, ...), then the salt and the nonce are sliced
RestoreGuard ==
    /\ pc = "guard"
    /\ UNCHANGED <<cmd, password, fileExists, file, origin, damaged, stdout>>
    /\ \/ /\ ~LongEnough(buf)
          /\ Fail("guard", "too_short", "Insufficient bytes in file")
       \/ /\ LongEnough(buf)
          /\ salt' = SaltSlice(buf)
          /\ nonce' = NonceSlice(buf)
          /\ Go("guard", "ok", "derive")
          /\ UNCHANGED <<payload, sealed, buf, key, decrypted>>

\* the key derived from the salt alone, the password left out
RestoreDerive_NoPassword(kdfOk) ==
    /\ pc = "derive"
    /\ UNCHANGED <<cmd, password, fileExists, file, origin, damaged, stdout>>
    /\ \/ /\ ~kdfOk
          /\ Fail("derive", "kdf_error", "Could not derive key")
       \/ /\ kdfOk
          /\ key' = derive_key_interactive(<< >>, salt)
          /\ Go("derive", "ok", "decrypt")
          /\ UNCHANGED <<payload, salt, nonce, sealed, buf, decrypted>>

\* pwhash::derive_key_interactive(&mut kb, password.as_bytes(), &salt)
RestoreDerive(kdfOk) ==
    /\ pc = "derive"
    /\ UNCHANGED <<cmd, password, fileExists, file, origin, damaged, stdout>>
    /\ \/ /\ ~kdfOk
          /\ Fail("derive", "kdf_error", "Could not derive key")
       \/ /\ kdfOk
          /\ key' = derive_key_interactive(password, salt)
          /\ Go("derive", "ok", "decrypt")
          /\ UNCHANGED <<payload, salt, nonce, sealed, buf, decrypted>>

\* the payload unmasked without the tag being verified
RestoreDecrypt_NoAuth ==
    /\ pc = "decrypt"
    /\ UNCHANGED <<cmd, password, fileExists, file, origin, damaged, stdout>>
    /\ decrypted' = Mask(SliceFrom(CipherSlice(buf), MACBYTES), nonce, key)
    /\ Go("decrypt", "ok", "stdout")
    /\ UNCHANGED <<payload, salt, nonce, sealed, buf, key>>

\* secretbox::open(&buf[56..], &nonce, &key)
RestoreDecrypt ==
    /\ pc = "decrypt"
    /\ UNCHANGED <<cmd, password, fileExists, file, origin, damaged, stdout>>
    /\ LET opened == secretbox_open(CipherSlice(buf), nonce, key)
       IN  \/ /\ ~opened.ok
              /\ Fail("decrypt", "error", "Unable to decrypt")
           \/ /\ opened.ok
              /\ decrypted' = opened.data
              /\ Go("decrypt", "ok", "stdout")
              /\ UNCHANGED <<payload, salt, nonce, sealed, buf, key>>

\* stdout.write_all(&decrypted): all of decrypted, or an error after
\* `written` bytes
RestoreStdout(ioOk, written) ==
    /\ pc = "stdout"
    /\ UNCHANGED <<cmd, password, fileExists, file, origin, damaged>>
    /\ \/ /\ ~ioOk
          /\ written < Len(decrypted)
          /\ stdout' = Prefix(decrypted, written)
          /\ Fail("stdout", "io_error", "Unable to write to stdout")
       \/ /\ ioOk
          /\ stdout' = decrypted
          /\ steps' = Append(steps, <<"stdout", "ok">>)
          /\ Exit(NoErr, 0)

---------------------------------------------------------------------------

Next ==
    \/ \E c \in {"backup", "restore"}, pw \in Passwords,
          res \in {"ok", "path_error", "prompt_error"} : Main(c, pw, res)
    \/ \E res \in {"ran", "spawn_error"}, status \in {0, 1} : BackupLogin(res, status)
    \/ \E res \in {"ran", "spawn_error"}, status \in {0, 1}, utf8 \in BOOLEAN :
          BackupUnlock(res, status, utf8)
    \/ \E res \in {"ran", "spawn_error"}, status \in {0, 1}, out \in Payloads :
          BackupExport(res, status, out)
    \/ \E s \in SaltSeeds, n \in NonceSeeds, kdfOk \in BOOLEAN :
          BackupSeal(SaltOf(s), NonceOf(n), kdfOk)
    \/ \E ioOk \in BOOLEAN : BackupCreate(ioOk)
    \/ \E ioOk \in BOOLEAN, written \in WrittenLens : BackupWrite(ioOk, written)
    \/ \E printOk \in BOOLEAN : BackupFinish(printOk)
    \/ \E ioOk \in BOOLEAN : RestoreOpen(ioOk)
    \/ \E ioOk \in BOOLEAN, pos \in 0..MaxSealedLen, bit \in 0..7 :
          RestoreRead(ioOk, pos, bit)
    \/ RestoreGuard
    \/ \E kdfOk \in BOOLEAN : RestoreDerive(kdfOk)
    \/ RestoreDecrypt
    \/ \E ioOk \in BOOLEAN, written \in 0..MaxLen : RestoreStdout(ioOk, written)

Spec == Init /\ [][Next]_vars

---------------------------------------------------------------------------
(* What the properties below speak of *)

\* this invocation ran `step` and the step came to `outcome`
Did(step, outcome) == \E i \in 1..Len(steps) : steps[i] = <<step, outcome>>

\* this invocation ran `step`, whatever it came to
Attempted(step) == \E i \in 1..Len(steps) : steps[i][1] = step

Exited == pc = "exited"

\* restore has read the file
Opening == cmd = "restore" /\ Did("read", "ok")

\* restore has read, bit for bit, an archive that backup wrote in full
OpeningSealed == Opening /\ origin.st = "intact" /\ ~damaged

\* open never gave a plaintext and nothing reached stdout; it ended, if it
\* ended, with one of `errors`
OpenRefused(errors) ==
    /\ pc # "stdout"
    /\ ~Did("decrypt", "ok")
    /\ stdout = << >>
    /\ Exited => err \in errors /\ exitCode = 1

---------------------------------------------------------------------------
(* C1: round trip *)

\* C1 as stated: opening an archive with the password it was sealed with
\* always succeeds and yields the payload.
C1_RoundTripAlwaysSucceeds ==
    (OpeningSealed /\ origin.pw = password) =>
        /\ Exited => Did("decrypt", "ok")
        /\ pc = "stdout" => decrypted = origin.data

\* C1, amended: opening an archive with the password it was sealed with is
\* never refused as too short or as undecryptable, whatever salt and nonce
\* seal drew; once key derivation has returned a key, open succeeds and
\* yields exactly the payload (and a successful run has written exactly the
\* payload to stdout); open fails only when key derivation itself fails.
C1_RoundTrip ==
    (OpeningSealed /\ origin.pw = password) =>
        /\ ~Did("guard", "too_short")
        /\ ~Did("decrypt", "error")
        /\ (Exited /\ Did("derive", "ok")) => Did("decrypt", "ok")
        /\ (Exited /\ ~Did("derive", "ok")) => err = "Could not derive key"
        /\ pc = "stdout" => decrypted = origin.data
        /\ (Exited /\ err = NoErr) => stdout = origin.data

C1_Witness ==
    /\ OpeningSealed
    /\ origin.pw = password
    /\ Exited
    /\ err = NoErr
    /\ Len(origin.data) = 3
    /\ stdout = origin.data

---------------------------------------------------------------------------
(* C2: wrong password *)

\* C2 as stated: opening an archive with another password than the one it
\* was sealed with fails with "Unable to decrypt" and gives no plaintext.
C2_WrongPasswordIsDecryptionFailed ==
    (OpeningSealed /\ origin.pw # password) =>
        OpenRefused({"Unable to decrypt"})

\* C2, amended: opening an archive with another password than the one it was
\* sealed with never gives a plaintext and writes nothing to stdout; it fails
\* with "Unable to decrypt" once key derivation has returned a key, and with
\* "Could not derive key" when key derivation itself fails.
C2_WrongPassword ==
    (OpeningSealed /\ origin.pw # password) =>
        /\ OpenRefused({"Unable to decrypt", "Could not derive key"})
        /\ (Exited /\ Did("derive", "ok")) => err = "Unable to decrypt"

C2_Witness ==
    /\ OpeningSealed
    /\ origin.pw # password
    /\ Did("derive", "ok")
    /\ Exited
    /\ err = "Unable to decrypt"

---------------------------------------------------------------------------
(* C3: tamper sensitivity *)

\* C3 as stated: an archive read with one bit of its ciphertext region
\* (offset 56 to the end) flipped fails to open with "Unable to decrypt",
\* under every password, and gives no plaintext.
C3_TamperedIsDecryptionFailed ==
    (Opening /\ damaged) => OpenRefused({"Unable to decrypt"})

\* C3, amended: an archive read with one bit of its ciphertext region flipped
\* never opens, under any password, and nothing is written to stdout; open
\* fails with "Unable to decrypt" once key derivation has returned a key, and
\* with "Could not derive key" when key derivation itself fails.
C3_Tampered ==
    (Opening /\ damaged) =>
        /\ OpenRefused({"Unable to decrypt", "Could not derive key"})
        /\ (Exited /\ Did("derive", "ok")) => err = "Unable to decrypt"

C3_Witness ==
    /\ Opening
    /\ damaged
    /\ origin.pw = password
    /\ Len(origin.data) > 0
    /\ Exited
    /\ err = "Unable to decrypt"

---------------------------------------------------------------------------
(* C4: format guard *)

\* C4: a file of at most 56 bytes is refused with "Insufficient bytes in
\* file", and neither key derivation nor decryption is attempted on it.
C4_FormatGuard ==
    (Opening /\ Len(file) <= 56) =>
        /\ pc \in {"guard", "exited"}
        /\ ~Attempted("derive")
        /\ ~Attempted("decrypt")
        /\ stdout = << >>
        /\ Exited => (err = "Insufficient bytes in file" /\ exitCode = 1)

C4_Witness ==
    /\ Opening
    /\ Len(file) = 56
    /\ Exited
    /\ err = "Insufficient bytes in file"

---------------------------------------------------------------------------
(* C5: size relation *)

\* C5: the result of a successful seal is 56 + len(D) + 16 bytes long: the
\* 32 bytes of the salt, the 24 bytes of the nonce, then a ciphertext of
\* len(D) + 16 bytes.
C5_SizeRelation ==
    Did("seal", "ok") /\ ~Exited =>
        /\ Len(sealed) = 56 + Len(payload) + 16
        /\ Len(salt) = 32
        /\ Len(nonce) = 24
        /\ SubSeq(sealed, 1, 32) = salt
        /\ SubSeq(sealed, 33, 56) = nonce
        /\ Len(SubSeq(sealed, 57, Len(sealed))) = Len(payload) + 16

C5_Witness ==
    /\ pc = "create"
    /\ Did("seal", "ok")
    /\ Len(payload) = 3
    /\ Len(sealed) = 75

---------------------------------------------------------------------------
(* C6: no partial output on an error path *)

\* C6: a run that ends in an error has left no partial sealed archive in the
\* backup file and no partial plaintext on stdout.
C6_NoPartialOutput ==
    (Exited /\ exitCode # 0) =>
        /\ ~(cmd = "backup" /\ origin.st = "partial" /\ Len(file) > 0)
        /\ ~(cmd = "restore" /\ Len(stdout) > 0)

---------------------------------------------------------------------------
(* C7: errors are terminal *)

\* the i-th step of this invocation failed
StepFailed(i) == steps[i][2] # "ok"

\* a failed step is the last one this invocation ran, and the process has
\* exited with an error and a non-zero status
Terminal(i) ==
    /\ i = Len(steps)
    /\ Exited
    /\ err # NoErr
    /\ exitCode # 0

\* C7 as stated: once any step fails, a non-zero exit of the login command
\* included, no later step runs and the run ends with an error and a non-zero
\* status.
C7_EveryFailureTerminal ==
    \A i \in 1..Len(steps) : StepFailed(i) => Terminal(i)

\* C7, amended: once any step fails no later step runs, nothing is retried,
\* and the run ends with an error and a non-zero status, with one exception:
\* a non-zero exit status of `bw login` is only logged and the run goes on
\* with `bw unlock` (only a failure to run the login command is an error).
C7_FailureTerminal ==
    /\ \A i \in 1..Len(steps) :
          (StepFailed(i) /\ steps[i] # <<"login", "exit_nonzero">>) => Terminal(i)
    /\ \A i, j \in 1..Len(steps) : steps[i][1] = steps[j][1] => i = j
    /\ err # NoErr => Exited /\ exitCode # 0
    /\ (Exited /\ exitCode = 0) =>
          \A i \in 1..Len(steps) :
              StepFailed(i) => steps[i] = <<"login", "exit_nonzero">>

C7_Witness ==
    /\ cmd = "backup"
    /\ Did("login", "exit_nonzero")
    /\ Did("export", "exit_nonzero")
    /\ Exited
    /\ err = "bw export exited unsuccessfully"
    /\ exitCode = 1

---------------------------------------------------------------------------
(* C8: two seals of the same password and payload *)

\* seal has just returned for the password and the payload of the archive
\* that is still in the file: `file` is the first result, `sealed` the second
SealedTwice ==
    /\ pc = "create"
    /\ origin.st = "intact"
    /\ origin.pw = password
    /\ origin.data = payload

SameDraw == salt = origin.salt /\ nonce = origin.nonce

---------------------------------------------------------------------------
(* C9: the backup file is written last *)

\* C9: the backup file is created, truncated or written only by a backup
\* whose unlock, export and seal have all succeeded; in a run where one of
\* them failed the file is left as it was.
C9_FileWrittenLast ==
    [][(file' # file \/ fileExists' # fileExists) =>
          /\ cmd = "backup"
          /\ pc \in {"create", "write"}
          /\ Did("unlock", "ok")
          /\ Did("export", "ok")
          /\ Did("seal", "ok")
          /\ \A i \in 1..Len(steps) :
                steps[i][1] \in {"unlock", "export", "seal"} => ~StepFailed(i)]_vars

C9_Witness ==
    /\ cmd = "backup"
    /\ Exited
    /\ Did("export", "exit_nonzero")
    /\ origin.st = "intact"
    /\ file = seal(origin.pw, origin.data, origin.salt, origin.nonce)

---------------------------------------------------------------------------
(* C10: a ciphertext region shorter than the tag *)

\* C10 as stated: a file of 57 to 71 bytes passes the length check, the key
\* is derived, and open then fails with "Unable to decrypt" under every
\* password, with nothing written to stdout.
C10_ShortCipherIsDecryptionFailed ==
    (Opening /\ Len(file) \in 57..71) =>
        /\ ~Did("guard", "too_short")
        /\ OpenRefused({"Unable to decrypt"})

\* C10, amended: a file of 57 to 71 bytes passes the length check and is
\* never opened: key derivation is attempted, and open fails with "Unable to
\* decrypt" once it has returned a key (with "Could not derive key" when key
\* derivation itself fails), under every password, with nothing written to
\* stdout.
C10_ShortCipher ==
    (Opening /\ Len(file) \in 57..71) =>
        /\ ~Did("guard", "too_short")
        /\ OpenRefused({"Unable to decrypt", "Could not derive key"})
        /\ Exited => Attempted("derive")
        /\ (Exited /\ Did("derive", "ok")) => err = "Unable to decrypt"

C10_Witness ==
    /\ Opening
    /\ Len(file) = 71
    /\ Did("derive", "ok")
    /\ Exited
    /\ err = "Unable to decrypt"

=============================================================================
